---- MODULE Spec2Model ----
(***************************************************************************)
(* Model of app/src/main/cpp/whisper_jni.cpp: the JNI bridge between the   *)
(* managed WhisperService / WhisperWrapper classes and the whisper engine. *)
(*                                                                         *)
(* Every JNI entry point is one action.  An action records, in `last`, the *)
(* inputs of the call, the ordered list of calls it made into its          *)
(* collaborators (engine, asset manager, JNI array access, stdio) and the  *)
(* value it returned.  The engine (whisper.h) and the platform are not     *)
(* part of the file: their answers are chosen nondeterministically.        *)
(*                                                                         *)
(* C strings are sequences of byte values 1..255 (no NUL); a Java string is *)
(* a sequence of UTF-16 code units.  NewStringUTF decodes modified UTF-8;   *)
(* bytes that are not modified UTF-8 are outside its contract.  The sample *)
(* array of fullTranscribe is a Java reference and can be null.            *)
(* A handle is any jlong the caller passes: 0, a context that is alive, or *)
(* a dangling one (released or never created), on which every engine call *)
(* is undefined.                                                           *)
(* A float sample s / 32768.0f is kept as the exact pair num/den.          *)
(*                                                                         *)
(* `world` is what nativeTranscribe finds outside the program: the audio   *)
(* file on disk, whether the model loads, and what the engine makes of the *)
(* audio.  It is chosen once, at the start of a behaviour of SpecLegacy.   *)
(***************************************************************************)
EXTENDS Integers, Sequences, FiniteSets

VARIABLES ctxs, audioData, last, faulted, world

vars == <<ctxs, audioData, last, faulted, world>>

\* ---------------------------------------------------------------- bounds
MaxCtx        == 1   \* engine contexts that can be alive at once
MaxSegs       == 1   \* segments one whisper_full call produces on a kept context
MaxLegacySegs == 2   \* segments whisper_full produces inside nativeTranscribe
MaxTextLen    == 1   \* characters in one segment text
MaxPayload    == 3   \* bytes that follow the 44-byte header of an audio file

\* ------------------------------------------------------ program constants
WavHeaderBytes == 44
Int16Scale     == 32768
JNI_ABORT      == 2

\* ------------------------------------------------------------ value sets
Handles  == 1..MaxCtx
\* UTF-8 characters of segment texts: U+20AC for a kept context; space,
\* U+00E9 and U+1F600 inside nativeTranscribe
Chars       == {<<226, 130, 172>>}
LegacyChars == {<<32>>, <<195, 169>>, <<240, 159, 152, 128>>}
Bytes    == {0, 128}
Statuses == {0, -1}
Threads  == {1, 4}
AssetSizes == {-1, 0, 1}

SeqsUpTo(S, n) == UNION {[1..k -> S] : k \in 0..n}

RECURSIVE Concat(_)
Concat(ss) == IF ss = <<>> THEN <<>> ELSE Head(ss) \o Concat(Tail(ss))

Texts    == {Concat(cs) : cs \in SeqsUpTo(Chars, MaxTextLen)}
SegLists == SeqsUpTo(Texts, MaxSegs)
Indices  == (-1)..MaxSegs

LegacyTexts    == {Concat(cs) : cs \in SeqsUpTo(LegacyChars, MaxTextLen)}
LegacySegLists == SeqsUpTo(LegacyTexts, MaxLegacySegs)

\* --------------------------------------------------------- call records
Ev(call, ctx, arg, res) == [call |-> call, ctx |-> ctx, arg |-> arg, res |-> res]

CallsOf(calls, name) == {i \in 1..Len(calls) : calls[i].call = name}

\* the three strings the legacy entry point returns on failure
ErrModel   == "Error: Failed to load model"
ErrAudio   == "Error: Failed to read audio file"
ErrProcess == "Error: Failed to process audio"

\* ---------------------------------------------------------------- engine
\* A context of the engine: alive or not, whether whisper_full has run on
\* it since it was created, and the segment texts of the last run.
NoCtx    == [live |-> FALSE, ran |-> FALSE, segs |-> <<>>]
FreshCtx == [live |-> TRUE,  ran |-> FALSE, segs |-> <<>>]

\* whisper_init_from_file_with_params / whisper_init_from_buffer_with_params:
\* 0 (nullptr) or the address of a context that is not alive yet.
InitResults == {0} \cup {h \in Handles : ~ctxs[h].live}

whisper_full_n_segments(h) == Len(ctxs[h].segs)

whisper_free(cs, h) == [cs EXCEPT ![h] = NoCtx]

whisper_full(cs, h, segs) == [cs EXCEPT ![h] = [live |-> TRUE, ran |-> TRUE, segs |-> segs]]

\* a non-zero handle that is not the address of a context that is alive
Dangling(h) == h # 0 /\ ~ctxs[h].live

InRange(h, index) == ctxs[h].live /\ index >= 0 /\ index < Len(ctxs[h].segs)

\* whisper_full_n_segments on any non-zero handle: the count of a context that
\* is alive; on a dangling handle the read is undefined (any count or a fault)
SegmentCountOutcomes(h) ==
    IF ctxs[h].live
    THEN {[kind |-> "value", n |-> whisper_full_n_segments(h)]}
    ELSE {[kind |-> "fault"]} \cup {[kind |-> "value", n |-> n] : n \in (-1)..MaxSegs}

\* whisper_free / whisper_full on any non-zero handle: they return on a
\* context that is alive; on a dangling handle they may return or fault
CallOutcomes(h) == IF ctxs[h].live THEN {"return"} ELSE {"return", "fault"}

\* -------------------------------------------------------------------- JNI
IsCont(s, i) == i <= Len(s) /\ s[i] \in 128..191

\* s, from position i, is modified UTF-8: 1-, 2- and 3-byte forms only
RECURSIVE IsModifiedUtf8From(_, _)
IsModifiedUtf8From(s, i) ==
    IF i > Len(s) THEN TRUE
    ELSE IF s[i] \in 1..127 THEN IsModifiedUtf8From(s, i + 1)
    ELSE IF s[i] \in 192..223 THEN IsCont(s, i + 1) /\ IsModifiedUtf8From(s, i + 2)
    ELSE IF s[i] \in 224..239
         THEN IsCont(s, i + 1) /\ IsCont(s, i + 2) /\ IsModifiedUtf8From(s, i + 3)
    ELSE FALSE

\* the number of UTF-16 code units NewStringUTF allots: one for every byte
\* that is not a continuation byte
UnitCount(s) == Cardinality({i \in 1..Len(s) : s[i] \notin 128..191})

\* n UTF-16 code units decoded from s, from position i.  A 1-, 2- or 3-byte
\* form gives its character; any other byte (a continuation byte out of
\* place, a lead byte without its continuation bytes, a byte 240..255) gives
\* its own value as one unit and the decoding goes on at the next byte.
RECURSIVE DecodeFrom(_, _, _)
DecodeFrom(s, i, n) ==
    IF n = 0 \/ i > Len(s) THEN <<>>
    ELSE IF s[i] \in 192..223 /\ IsCont(s, i + 1)
         THEN <<(s[i] % 32) * 64 + (s[i + 1] % 64)>> \o DecodeFrom(s, i + 2, n - 1)
    ELSE IF s[i] \in 224..239 /\ IsCont(s, i + 1) /\ IsCont(s, i + 2)
         THEN <<(s[i] % 16) * 4096 + (s[i + 1] % 64) * 64 + (s[i + 2] % 64)>>
              \o DecodeFrom(s, i + 3, n - 1)
    ELSE <<s[i]>> \o DecodeFrom(s, i + 1, n - 1)

\* NewStringUTF on a NUL-free C string: the Java string it makes.  On bytes
\* that are not modified UTF-8 this is the string of the desktop runtime.
NewStringUTF(s) == DecodeFrom(s, 1, UnitCount(s))

\* the UTF-16 form of UTF-8 text: a 4-byte character is a surrogate pair, a
\* byte that is not part of a character is U+FFFD
RECURSIVE Utf8ToUtf16(_, _)
Utf8ToUtf16(s, i) ==
    IF i > Len(s) THEN <<>>
    ELSE IF s[i] < 128 THEN <<s[i]>> \o Utf8ToUtf16(s, i + 1)
    ELSE IF s[i] \in 192..223 /\ IsCont(s, i + 1)
         THEN <<(s[i] % 32) * 64 + (s[i + 1] % 64)>> \o Utf8ToUtf16(s, i + 2)
    ELSE IF s[i] \in 224..239 /\ IsCont(s, i + 1) /\ IsCont(s, i + 2)
         THEN <<(s[i] % 16) * 4096 + (s[i + 1] % 64) * 64 + (s[i + 2] % 64)>>
              \o Utf8ToUtf16(s, i + 3)
    ELSE IF s[i] \in 240..247 /\ IsCont(s, i + 1) /\ IsCont(s, i + 2) /\ IsCont(s, i + 3)
         THEN LET cp == (s[i] % 8) * 262144 + (s[i + 1] % 64) * 4096
                        + (s[i + 2] % 64) * 64 + (s[i + 3] % 64) - 65536
              IN  <<55296 + (cp \div 1024), 56320 + (cp % 1024)>> \o Utf8ToUtf16(s, i + 4)
    ELSE <<65533>> \o Utf8ToUtf16(s, i + 1)

\* what a call of NewStringUTF can do: on modified UTF-8 it returns the
\* decoded string; on other bytes the call is undefined, and a runtime
\* returns the string above, returns the text decoded as UTF-8, or aborts
NewStringUTFOutcomes(s) ==
    IF IsModifiedUtf8From(s, 1)
    THEN {[kind |-> "string", str |-> NewStringUTF(s)]}
    ELSE {[kind |-> "string", str |-> NewStringUTF(s)],
          [kind |-> "string", str |-> Utf8ToUtf16(s, 1)],
          [kind |-> "fault"]}

Space == 32

\* ------------------------------------------------------------ audio files
\* An audio file: whether fopen succeeds, and its bytes.
Zeros(n) == [i \in 1..n |-> 0]

NoFile == [exists |-> FALSE, bytes |-> <<>>]

AudioFiles ==
    {NoFile}
    \cup {[exists |-> TRUE, bytes |-> Zeros(k)] : k \in {0, 1, WavHeaderBytes - 1}}
    \cup {[exists |-> TRUE, bytes |-> Zeros(WavHeaderBytes) \o p] : p \in SeqsUpTo(Bytes, MaxPayload)}

\* what nativeTranscribe finds: load is what model loading returns (0 or a
\* context), status and segs what whisper_full makes of the samples
\* (segs is read only when the model loads, the file holds a sample and the
\* status is 0; it is <<>> in every other world)
HasSample(file) == file.exists /\ Len(file.bytes) >= WavHeaderBytes + 2

Worlds ==
    [file : {f \in AudioFiles : HasSample(f)}, load : Handles, status : {0},
     segs : LegacySegLists]
    \cup {w \in [file : AudioFiles, load : 0..MaxCtx, status : Statuses, segs : {<<>>}] :
             w.load = 0 \/ ~HasSample(w.file) \/ w.status # 0}

NoWorld == [file |-> NoFile, load |-> 0, status |-> 0, segs |-> <<>>]

TypeOK ==
    /\ ctxs \in [Handles -> [live : BOOLEAN, ran : BOOLEAN, segs : SegLists \cup LegacySegLists]]
    /\ world \in Worlds
    /\ audioData \in Seq(Int)
    /\ faulted \in BOOLEAN

Init ==
    /\ ctxs = [h \in Handles |-> NoCtx]
    /\ audioData \in {<<>>, <<16384, -16384>>}
    /\ last = [op |-> "none", calls |-> <<>>]
    /\ faulted = FALSE
    /\ world = NoWorld

\* ------------------------------------------------------------ initContext
initContext(res) ==
    /\ ~faulted
    /\ res \in InitResults
    /\ ctxs' = IF res = 0 THEN ctxs ELSE [ctxs EXCEPT ![res] = FreshCtx]
    /\ last' = [op |-> "initContext",
                calls |-> <<Ev("whisper_init_from_file_with_params", 0, 0, res)>>,
                ret |-> res]
    /\ UNCHANGED <<audioData, faulted, world>>

\* --------------------------------------------------- initContextFromAsset
\* The calls made and the value returned, given what the platform and the
\* engine answer: mgr, asset and data are pointers (0 = nullptr), size is
\* AAsset_getLength, res is what the engine returns for the buffer.
\* variant: the length test is `asset_size < 0`
initContextFromAssetRun_zeroLen(mgr, asset, size, data, res) ==
    LET c1 == <<Ev("AAssetManager_fromJava", 0, 0, mgr)>>
        c2 == Append(c1, Ev("AAssetManager_open", 0, 0, asset))
        c4 == c2 \o <<Ev("AAsset_getLength", asset, 0, size),
                      Ev("AAsset_getBuffer", asset, 0, data)>>
        c5 == Append(c4, Ev("whisper_init_from_buffer_with_params", asset, size, res))
    IN  IF mgr = 0 THEN [calls |-> c1, ret |-> 0]
        ELSE IF asset = 0 THEN [calls |-> c2, ret |-> 0]
        ELSE IF data = 0 \/ size < 0
             THEN [calls |-> Append(c4, Ev("AAsset_close", asset, 0, 0)), ret |-> 0]
        ELSE [calls |-> Append(c5, Ev("AAsset_close", asset, 0, 0)),
              ret |-> IF res = 0 THEN 0 ELSE res]

\* variant: the asset is closed only when the engine produced a context
initContextFromAssetRun_leak(mgr, asset, size, data, res) ==
    LET c1 == <<Ev("AAssetManager_fromJava", 0, 0, mgr)>>
        c2 == Append(c1, Ev("AAssetManager_open", 0, 0, asset))
        c4 == c2 \o <<Ev("AAsset_getLength", asset, 0, size),
                      Ev("AAsset_getBuffer", asset, 0, data)>>
        c5 == Append(c4, Ev("whisper_init_from_buffer_with_params", asset, size, res))
    IN  IF mgr = 0 THEN [calls |-> c1, ret |-> 0]
        ELSE IF asset = 0 THEN [calls |-> c2, ret |-> 0]
        ELSE IF data = 0 \/ size <= 0
             THEN [calls |-> Append(c4, Ev("AAsset_close", asset, 0, 0)), ret |-> 0]
        ELSE IF res = 0 THEN [calls |-> c5, ret |-> 0]
        ELSE [calls |-> Append(c5, Ev("AAsset_close", asset, 0, 0)), ret |-> res]

initContextFromAssetRun(mgr, asset, size, data, res) ==
    LET c1 == <<Ev("AAssetManager_fromJava", 0, 0, mgr)>>
        c2 == Append(c1, Ev("AAssetManager_open", 0, 0, asset))
        c4 == c2 \o <<Ev("AAsset_getLength", asset, 0, size),
                      Ev("AAsset_getBuffer", asset, 0, data)>>
        c5 == Append(c4, Ev("whisper_init_from_buffer_with_params", asset, size, res))
    IN  IF mgr = 0 THEN [calls |-> c1, ret |-> 0]
        ELSE IF asset = 0 THEN [calls |-> c2, ret |-> 0]
        ELSE IF data = 0 \/ size <= 0
             THEN [calls |-> Append(c4, Ev("AAsset_close", asset, 0, 0)), ret |-> 0]
        ELSE [calls |-> Append(c5, Ev("AAsset_close", asset, 0, 0)),
              ret |-> IF res = 0 THEN 0 ELSE res]

EngineCreated(calls) ==
    {calls[i].res : i \in CallsOf(calls, "whisper_init_from_buffer_with_params")
                       \cup CallsOf(calls, "whisper_init_from_file_with_params")} \ {0}

initContextFromAsset(mgr, asset, size, data, res) ==
    /\ ~faulted
    /\ res \in InitResults
    /\ LET r == initContextFromAssetRun(mgr, asset, size, data, res)
       IN  /\ ctxs' = [h \in Handles |->
                         IF h \in EngineCreated(r.calls) THEN FreshCtx ELSE ctxs[h]]
           /\ last' = [op |-> "initContextFromAsset", calls |-> r.calls, ret |-> r.ret,
                       mgr |-> mgr, asset |-> asset, size |-> size, data |-> data]
    /\ UNCHANGED <<audioData, faulted, world>>

\* ------------------------------------------------------------ freeContext
\* any jlong the caller passes
CallerHandles == 0..MaxCtx

freeContext(contextPtr, ub) ==
    /\ ~faulted
    /\ contextPtr \in CallerHandles
    /\ IF contextPtr # 0
       THEN /\ ub \in CallOutcomes(contextPtr)
            /\ ctxs' = whisper_free(ctxs, contextPtr)
            /\ faulted' = (ub = "fault")
            /\ last' = [op |-> "freeContext", h |-> contextPtr,
                        calls |-> <<Ev("whisper_free", contextPtr, 0, 0)>>]
       ELSE /\ ub = "return"
            /\ ctxs' = ctxs
            /\ faulted' = FALSE
            /\ last' = [op |-> "freeContext", h |-> contextPtr, calls |-> <<>>]
    /\ UNCHANGED <<audioData, world>>

\* --------------------------------------------------------- fullTranscribe
\* ReleaseFloatArrayElements: the Java array after the native buffer buf is
\* released with the given mode.  A copy is written back unless the mode is
\* JNI_ABORT; a pinned array is the buffer itself.
ReleaseFloatArrayElements(array, buf, isCopy, mode) ==
    IF isCopy /\ mode = JNI_ABORT THEN array ELSE buf

\* the calls of the non-null path, in program order
fullTranscribeCalls(contextPtr, audioLength, status) ==
    <<Ev("GetFloatArrayElements", 0, 0, 1),
      Ev("GetArrayLength", 0, 0, audioLength),
      Ev("whisper_full", contextPtr, audioLength, status),
      Ev("ReleaseFloatArrayElements", 0, JNI_ABORT, 0)>>

\* the jfloatArray references a caller can pass: null, or the sample array
NullArray == "null"
ArrayRefs == {NullArray, "array"}

\* The handle is tested against 0, the array reference is not tested:
\* GetFloatArrayElements on a null reference faults, before any engine call.
fullTranscribe(contextPtr, numThreads, array, status, segs, ub) ==
    /\ ~faulted
    /\ contextPtr \in CallerHandles
    /\ array \in ArrayRefs
    /\ IF contextPtr = 0
       THEN /\ ub = "return" /\ segs = <<>> /\ status = 0
            /\ last' = [op |-> "fullTranscribe", h |-> contextPtr, array |-> array,
                        calls |-> <<>>]
            /\ UNCHANGED <<ctxs, audioData, faulted>>
       ELSE IF array = NullArray
       THEN /\ ub = "fault" /\ segs = <<>> /\ status = 0
            /\ faulted' = TRUE
            /\ last' = [op |-> "fullTranscribe", h |-> contextPtr, array |-> array,
                        calls |-> <<Ev("GetFloatArrayElements", 0, 0, 0)>>,
                        threads |-> numThreads, status |-> status]
            /\ UNCHANGED <<ctxs, audioData>>
       ELSE LET audio       == audioData
                audioLength == Len(audioData)
                calls       == fullTranscribeCalls(contextPtr, audioLength, status)
                full        == CHOOSE i \in CallsOf(calls, "whisper_full") : TRUE
                rel         == CHOOSE i \in CallsOf(calls, "ReleaseFloatArrayElements") : TRUE
            IN  /\ ub \in CallOutcomes(contextPtr)
                /\ Dangling(contextPtr) => segs = <<>>
                /\ faulted' = (ub = "fault")
                /\ ctxs' = IF Dangling(contextPtr) THEN ctxs
                           ELSE whisper_full(ctxs, contextPtr, segs)
                /\ IF ub = "fault"
                   THEN /\ audioData' = audioData
                        /\ last' = [op |-> "fullTranscribe", h |-> contextPtr, array |-> array,
                                    calls |-> SubSeq(calls, 1, full),
                                    threads |-> numThreads, status |-> status]
                   ELSE /\ audioData' \in {ReleaseFloatArrayElements(audioData, audio, isCopy,
                                                                     calls[rel].arg) :
                                              isCopy \in BOOLEAN}
                        /\ last' = [op |-> "fullTranscribe", h |-> contextPtr, array |-> array,
                                    calls |-> calls,
                                    threads |-> numThreads, status |-> status]
    /\ UNCHANGED world

\* ---------------------------------------------------- getTextSegmentCount
\* variant: an invalid handle is answered with -1
getTextSegmentCount_minusOne(contextPtr, out) ==
    /\ ~faulted
    /\ contextPtr \in CallerHandles
    /\ IF contextPtr = 0
       THEN /\ out = [kind |-> "value", n |-> 0]
            /\ faulted' = FALSE
            /\ last' = [op |-> "getTextSegmentCount", h |-> contextPtr, calls |-> <<>>,
                        ret |-> -1]
       ELSE /\ out \in SegmentCountOutcomes(contextPtr)
            /\ faulted' = (out.kind = "fault")
            /\ last' = [op |-> "getTextSegmentCount", h |-> contextPtr,
                        calls |-> <<Ev("whisper_full_n_segments", contextPtr, 0,
                                       IF out.kind = "value" THEN out.n ELSE -1)>>,
                        ret |-> IF out.kind = "value" THEN out.n ELSE 0]
    /\ UNCHANGED <<ctxs, audioData, world>>

\* variant: the count is answered one too high
getTextSegmentCount_plusOne(contextPtr, out) ==
    /\ ~faulted
    /\ contextPtr \in CallerHandles
    /\ IF contextPtr = 0
       THEN /\ out = [kind |-> "value", n |-> 0]
            /\ faulted' = FALSE
            /\ last' = [op |-> "getTextSegmentCount", h |-> contextPtr, calls |-> <<>>,
                        ret |-> 0]
       ELSE /\ out \in SegmentCountOutcomes(contextPtr)
            /\ faulted' = (out.kind = "fault")
            /\ last' = [op |-> "getTextSegmentCount", h |-> contextPtr,
                        calls |-> <<Ev("whisper_full_n_segments", contextPtr, 0,
                                       IF out.kind = "value" THEN out.n ELSE -1)>>,
                        ret |-> IF out.kind = "value" THEN out.n + 1 ELSE 0]
    /\ UNCHANGED <<ctxs, audioData, world>>

getTextSegmentCount(contextPtr, out) ==
    /\ ~faulted
    /\ contextPtr \in CallerHandles
    /\ IF contextPtr = 0
       THEN /\ out = [kind |-> "value", n |-> 0]
            /\ faulted' = FALSE
            /\ last' = [op |-> "getTextSegmentCount", h |-> contextPtr, calls |-> <<>>,
                        ret |-> 0]
       ELSE /\ out \in SegmentCountOutcomes(contextPtr)
            /\ faulted' = (out.kind = "fault")
            /\ last' = [op |-> "getTextSegmentCount", h |-> contextPtr,
                        calls |-> <<Ev("whisper_full_n_segments", contextPtr, 0,
                                       IF out.kind = "value" THEN out.n ELSE -1)>>,
                        ret |-> IF out.kind = "value" THEN out.n ELSE 0]
    /\ UNCHANGED <<ctxs, audioData, world>>

\* --------------------------------------------------------- getTextSegment
\* whisper_full_get_segment_text(ctx, i) indexes the result vector without a
\* range check: in range on a context that is alive it answers the segment
\* text; otherwise the read is undefined, and the build may answer nullptr,
\* some other text, or fault.
SegmentTextOutcomes(h, index) ==
    IF InRange(h, index)
    THEN {[kind |-> "text", text |-> ctxs[h].segs[index + 1]]}
    ELSE {[kind |-> "null"], [kind |-> "fault"]}
         \cup {[kind |-> "text", text |-> t] : t \in Texts}

getTextSegment(contextPtr, index, out) ==
    /\ ~faulted
    /\ contextPtr \in CallerHandles
    /\ IF contextPtr = 0
       THEN /\ out = [kind |-> "null"]
            /\ \E js \in NewStringUTFOutcomes(<<>>) :
                  /\ faulted' = (js.kind = "fault")
                  /\ last' = [op |-> "getTextSegment", h |-> contextPtr, index |-> index,
                              calls |-> <<>>,
                              ret |-> IF js.kind = "string" THEN js.str ELSE <<>>]
       ELSE /\ out \in SegmentTextOutcomes(contextPtr, index)
            /\ \E js \in NewStringUTFOutcomes(IF out.kind = "text" THEN out.text ELSE <<>>) :
                  /\ faulted' = (out.kind = "fault" \/ js.kind = "fault")
                  /\ last' = [op |-> "getTextSegment", h |-> contextPtr, index |-> index,
                              calls |-> <<Ev("whisper_full_get_segment_text", contextPtr, index,
                                             CASE out.kind = "text"  -> 1
                                               [] out.kind = "null"  -> 0
                                               [] out.kind = "fault" -> -1)>>,
                              ret |-> IF out.kind # "fault" /\ js.kind = "string"
                                      THEN js.str ELSE <<>>]
    /\ UNCHANGED <<ctxs, audioData, world>>

SegmentOutcomes ==
    {[kind |-> "null"], [kind |-> "fault"]} \cup {[kind |-> "text", text |-> t] : t \in Texts}

CountOutcomes ==
    {[kind |-> "fault"]} \cup {[kind |-> "value", n |-> n] : n \in (-1)..MaxSegs}

Next ==
    \/ \E res \in 0..MaxCtx : initContext(res)
    \/ \E mgr \in {0, 1}, asset \in {0, 1}, size \in AssetSizes, data \in {0, 1},
          res \in 0..MaxCtx : initContextFromAsset(mgr, asset, size, data, res)
    \/ \E h \in 0..MaxCtx, ub \in {"return", "fault"} : freeContext(h, ub)
    \/ \E h \in 0..MaxCtx, n \in Threads, array \in ArrayRefs, status \in Statuses,
          segs \in SegLists, ub \in {"return", "fault"} :
          fullTranscribe(h, n, array, status, segs, ub)
    \/ \E h \in 0..MaxCtx, out \in CountOutcomes : getTextSegmentCount(h, out)
    \/ \E h \in 0..MaxCtx, index \in Indices, out \in SegmentOutcomes :
          getTextSegment(h, index, out)

Spec == Init /\ [][Next]_vars

\* --------------------------------------------------------------- read_wav
\* the int16_t that fread stores for two consecutive bytes (little-endian)
Int16At(bytes, pos) ==
    LET u == bytes[pos + 1] + 256 * bytes[pos + 2]
    IN  IF u >= 32768 THEN u - 65536 ELSE u

\* the loop `while (fread(&sample, 2, 1, file) == 1) push_back(sample / 32768.0f)`
\* started at offset pos: the samples pushed
RECURSIVE ReadSamples(_, _)
ReadSamples(bytes, pos) ==
    IF pos + 2 <= Len(bytes)
    THEN <<[num |-> Int16At(bytes, pos), den |-> Int16Scale]>> \o ReadSamples(bytes, pos + 2)
    ELSE <<>>

\* variant: the header is not skipped
read_wav_noSkip(file) ==
    IF ~file.exists
    THEN [pcmf32 |-> <<>>, calls |-> <<Ev("fopen", 0, 0, 0)>>]
    ELSE LET pcm == ReadSamples(file.bytes, 0)
         IN  [pcmf32 |-> pcm,
              calls  |-> <<Ev("fopen", 0, 0, 1)>>
                         \o [i \in 1..Len(pcm) |-> Ev("fread", 0, 2, 1)]
                         \o <<Ev("fread", 0, 2, 0), Ev("fclose", 0, 0, 0)>>]

read_wav(file) ==
    IF ~file.exists
    THEN [pcmf32 |-> <<>>, calls |-> <<Ev("fopen", 0, 0, 0)>>]
    ELSE LET pcm == ReadSamples(file.bytes, WavHeaderBytes)
         IN  [pcmf32 |-> pcm,
              calls  |-> <<Ev("fopen", 0, 0, 1), Ev("fseek", 0, WavHeaderBytes, 0)>>
                         \o [i \in 1..Len(pcm) |-> Ev("fread", 0, 2, 1)]
                         \o <<Ev("fread", 0, 2, 0), Ev("fclose", 0, 0, 0)>>]

\* ------------------------------------------------------- nativeTranscribe

\* the loop over the segments, from index i: what is written to `result`
RECURSIVE JoinFrom(_, _)
JoinFrom(segs, i) ==
    IF i < Len(segs)
    THEN segs[i + 1] \o (IF i < Len(segs) - 1 THEN <<Space>> ELSE <<>>) \o JoinFrom(segs, i + 1)
    ELSE <<>>

\* variant: the context is not released when the audio cannot be read
nativeTranscribeRun_leak(ctx, file, status, segs) ==
    LET c0    == <<Ev("whisper_init_from_file_with_params", 0, 0, ctx)>>
        wav   == read_wav(file)
        c1    == c0 \o wav.calls
        c2    == Append(c1, Ev("whisper_full", ctx, Len(wav.pcmf32), status))
        c3    == Append(c2, Ev("whisper_full_n_segments", ctx, 0, Len(segs)))
                 \o [i \in 1..Len(segs) |-> Ev("whisper_full_get_segment_text", ctx, i - 1, 1)]
        free  == Ev("whisper_free", ctx, 0, 0)
    IN  IF ctx = 0
        THEN [calls |-> c0, err |-> ErrModel, bytes |-> <<>>]
        ELSE IF wav.pcmf32 = <<>>
        THEN [calls |-> c1, err |-> ErrAudio, bytes |-> <<>>]
        ELSE IF status # 0
        THEN [calls |-> Append(c2, free), err |-> ErrProcess, bytes |-> <<>>]
        ELSE [calls |-> Append(c3, free), err |-> "", bytes |-> JoinFrom(segs, 0)]

\* variant: the audio file is read before the model is loaded
nativeTranscribeRun_readFirst(ctx, file, status, segs) ==
    LET c0    == <<Ev("whisper_init_from_file_with_params", 0, 0, ctx)>>
        wav   == read_wav(file)
        c1    == wav.calls \o c0
        c2    == Append(c1, Ev("whisper_full", ctx, Len(wav.pcmf32), status))
        c3    == Append(c2, Ev("whisper_full_n_segments", ctx, 0, Len(segs)))
                 \o [i \in 1..Len(segs) |-> Ev("whisper_full_get_segment_text", ctx, i - 1, 1)]
        free  == Ev("whisper_free", ctx, 0, 0)
    IN  IF ctx = 0
        THEN [calls |-> c1, err |-> ErrModel, bytes |-> <<>>]
        ELSE IF wav.pcmf32 = <<>>
        THEN [calls |-> Append(c1, free), err |-> ErrAudio, bytes |-> <<>>]
        ELSE IF status # 0
        THEN [calls |-> Append(c2, free), err |-> ErrProcess, bytes |-> <<>>]
        ELSE [calls |-> Append(c3, free), err |-> "", bytes |-> JoinFrom(segs, 0)]

\* The calls made, the error string returned ("" when there is none) and the
\* bytes of `transcription`, given the engine's answers: ctx is what model
\* loading returns, status and segs what whisper_full produces.
nativeTranscribeRun(ctx, file, status, segs) ==
    LET c0    == <<Ev("whisper_init_from_file_with_params", 0, 0, ctx)>>
        wav   == read_wav(file)
        c1    == c0 \o wav.calls
        c2    == Append(c1, Ev("whisper_full", ctx, Len(wav.pcmf32), status))
        c3    == Append(c2, Ev("whisper_full_n_segments", ctx, 0, Len(segs)))
                 \o [i \in 1..Len(segs) |-> Ev("whisper_full_get_segment_text", ctx, i - 1, 1)]
        free  == Ev("whisper_free", ctx, 0, 0)
    IN  IF ctx = 0
        THEN [calls |-> c0, err |-> ErrModel, bytes |-> <<>>]
        ELSE IF wav.pcmf32 = <<>>
        THEN [calls |-> Append(c1, free), err |-> ErrAudio, bytes |-> <<>>]
        ELSE IF status # 0
        THEN [calls |-> Append(c2, free), err |-> ErrProcess, bytes |-> <<>>]
        ELSE [calls |-> Append(c3, free), err |-> "", bytes |-> JoinFrom(segs, 0)]

\* contexts created by the calls and not handed to whisper_free
Unreleased(calls) ==
    {h \in EngineCreated(calls) : \A i \in CallsOf(calls, "whisper_free") : calls[i].ctx # h}

nativeTranscribe ==
    /\ ~faulted
    /\ world.load \in InitResults
    /\ LET r    == nativeTranscribeRun(world.load, world.file, world.status, world.segs)
           full == CallsOf(r.calls, "whisper_full")
       IN  /\ ctxs' = [h \in Handles |->
                         IF h \in Unreleased(r.calls)
                         THEN [live |-> TRUE, ran |-> full # {},
                               segs |-> IF full # {} THEN world.segs ELSE <<>>]
                         ELSE ctxs[h]]
           /\ \E js \in NewStringUTFOutcomes(r.bytes) :
                 /\ faulted' = (js.kind = "fault")
                 /\ last' = [op |-> "nativeTranscribe", calls |-> r.calls, err |-> r.err,
                             text |-> IF js.kind = "string" THEN js.str ELSE <<>>]
    /\ UNCHANGED <<audioData, world>>

\* ------------------------------------------------ nativeInit / nativeCleanup
nativeInit ==
    /\ ~faulted
    /\ last' = [op |-> "nativeInit", calls |-> <<>>]
    /\ UNCHANGED <<ctxs, audioData, faulted, world>>

nativeCleanup ==
    /\ ~faulted
    /\ last' = [op |-> "nativeCleanup", calls |-> <<>>]
    /\ UNCHANGED <<ctxs, audioData, faulted, world>>

InitLegacy ==
    /\ ctxs = [h \in Handles |-> NoCtx]
    /\ audioData = <<>>
    /\ last = [op |-> "none", calls |-> <<>>]
    /\ faulted = FALSE
    /\ world \in Worlds

NextLegacy ==
    \/ nativeTranscribe
    \/ nativeInit
    \/ nativeCleanup

SpecLegacy == InitLegacy /\ [][NextLegacy]_vars

\* ================================================================ claims
HandleOps == {"freeContext", "fullTranscribe", "getTextSegmentCount", "getTextSegment"}

EngineCalls ==
    {"whisper_init_from_file_with_params", "whisper_init_from_buffer_with_params",
     "whisper_full", "whisper_full_n_segments", "whisper_full_get_segment_text",
     "whisper_free"}

FileCalls == {"fopen", "fseek", "fread", "fclose"}

\* C1: a call of a handle-taking entry point with handle 0 makes no call at
\* all (no engine call, no acquisition of the sample array), leaves the
\* engine and the caller's array as they were, does not fault, and answers 0
\* for the count and the empty string for the text.
C1_NullHandleBenign ==
    [][(last'.op \in HandleOps /\ last'.h = 0) =>
          /\ last'.calls = <<>>
          /\ ctxs' = ctxs
          /\ audioData' = audioData
          /\ ~faulted'
          /\ (last'.op = "getTextSegmentCount" => last'.ret = 0)
          /\ (last'.op = "getTextSegment" => last'.ret = <<>>)]_vars

C1_Witness ==
    /\ last.op = "getTextSegmentCount"
    /\ last.h = 0
    /\ \E h \in Handles : ctxs[h].live /\ ctxs[h].segs # <<>>

\* C2: in nativeTranscribe, whisper_free is called exactly once on the
\* created context when creation succeeded (whatever happens afterwards) and
\* never when it failed, and no later call names the released context.
C2_LegacyReleasesOnce ==
    last.op = "nativeTranscribe" =>
        LET calls   == last.calls
            created == EngineCreated(calls)
            frees   == CallsOf(calls, "whisper_free")
        IN  /\ Cardinality(frees) = Cardinality(created)
            /\ Cardinality(created) <= 1
            /\ \A f \in frees :
                  /\ calls[f].ctx \in created
                  /\ \A j \in 1..Len(calls) : j > f => calls[j].ctx # calls[f].ctx

C2_Witness ==
    /\ last.op = "nativeTranscribe"
    /\ last.err = ErrAudio
    /\ CallsOf(last.calls, "whisper_free") # {}

\* C3: in nativeTranscribe, when the model does not load the result is the
\* model-error string and no file call is made; a file call is only ever
\* made after a model load that returned a context.
C3_LegacyModelFirst ==
    last.op = "nativeTranscribe" =>
        LET calls == last.calls
            loads == CallsOf(calls, "whisper_init_from_file_with_params")
        IN  /\ (\A i \in loads : calls[i].res = 0) =>
                  /\ last.err = ErrModel
                  /\ \A j \in 1..Len(calls) : calls[j].call \notin FileCalls
            /\ \A j \in 1..Len(calls) : calls[j].call \in FileCalls =>
                  \E i \in loads : i < j /\ calls[i].res # 0

C3_Witness ==
    /\ last.op = "nativeTranscribe"
    /\ last.err = ErrModel
    /\ world.file.exists
    /\ Len(world.file.bytes) >= WavHeaderBytes + 2

\* C4: in nativeTranscribe with a loaded model, a file that cannot be opened
\* or that holds no complete 16-bit sample after the first 44 bytes gives no
\* sample, the result is the audio-error string, and whisper_full is not
\* called.
NoCompleteSample(file) == ~file.exists \/ Len(file.bytes) < WavHeaderBytes + 2

C4_LegacyNoAudio ==
    (/\ last.op = "nativeTranscribe"
     /\ EngineCreated(last.calls) # {}
     /\ NoCompleteSample(world.file)) =>
        /\ \A i \in CallsOf(last.calls, "fread") : last.calls[i].res = 0
        /\ last.err = ErrAudio
        /\ CallsOf(last.calls, "whisper_full") = {}

C4_Witness ==
    /\ last.op = "nativeTranscribe"
    /\ EngineCreated(last.calls) # {}
    /\ world.file.exists
    /\ Len(world.file.bytes) = WavHeaderBytes - 1

\* C5 (as stated): getTextSegment answers the empty string, without
\* faulting, whenever the handle is 0, the engine answers nullptr, or the
\* index is out of range, and an out-of-range index is never passed to the
\* engine.
C5_SegmentTextGuarded ==
    last.op = "getTextSegment" =>
        LET outOfRange(i) == last.h # 0 /\ ~InRange(last.h, i)
        IN  /\ (\/ last.h = 0
                \/ outOfRange(last.index)
                \/ \E i \in 1..Len(last.calls) : last.calls[i].res = 0)
               => (last.ret = <<>> /\ ~faulted)
            /\ \A i \in 1..Len(last.calls) :
                  last.calls[i].call = "whisper_full_get_segment_text"
                     => ~outOfRange(last.calls[i].arg)

\* C6: initContextFromAsset answers 0 without calling the engine whenever
\* the asset manager is null, the asset is null, the buffer is null or the
\* length is <= 0; a non-zero answer is the non-null context the engine gave.
C6_AssetFailuresGiveNull ==
    last.op = "initContextFromAsset" =>
        LET calls == last.calls
            loads == CallsOf(calls, "whisper_init_from_buffer_with_params")
        IN  /\ (last.mgr = 0 \/ last.asset = 0 \/ last.data = 0 \/ last.size <= 0)
                  => (last.ret = 0 /\ loads = {})
            /\ last.ret # 0 => \E i \in loads : calls[i].res = last.ret

C6_Witness ==
    /\ last.op = "initContextFromAsset"
    /\ last.mgr # 0 /\ last.asset # 0 /\ last.data # 0
    /\ last.size = 0
    /\ last.ret = 0

\* C7: a context that is alive and on which whisper_full has not run since
\* its creation has no segments, and getTextSegmentCount on it answers 0; a
\* positive answer for a context that is alive means a transcription has run
\* on it.
C7_CountZeroBeforeTranscribe ==
    /\ \A h \in Handles : (ctxs[h].live /\ ~ctxs[h].ran) => Len(ctxs[h].segs) = 0
    /\ (last.op = "getTextSegmentCount" /\ last.h # 0 /\ ctxs[last.h].live) =>
          /\ ~faulted
          /\ (~ctxs[last.h].ran => last.ret = 0)
          /\ (last.ret > 0 => ctxs[last.h].ran)

C7_Witness ==
    /\ last.op = "getTextSegmentCount"
    /\ last.h # 0
    /\ ctxs[last.h].live
    /\ ~ctxs[last.h].ran
    /\ last.ret = 0

\* C8 (as stated): fullTranscribe with any non-null handle acquires the array
\* once, releases it once with JNI_ABORT after whisper_full has returned,
\* returns without faulting for any engine status, and leaves the array's
\* contents as they were.
C8_ArrayReleasedAbort ==
    [][(last'.op = "fullTranscribe" /\ last'.h # 0) =>
          LET calls == last'.calls
              gets  == CallsOf(calls, "GetFloatArrayElements")
              rels  == CallsOf(calls, "ReleaseFloatArrayElements")
              fulls == CallsOf(calls, "whisper_full")
          IN  /\ Cardinality(gets) = 1
              /\ Cardinality(rels) = 1
              /\ Cardinality(fulls) = 1
              /\ \A g \in gets, f \in fulls, r \in rels :
                    g < f /\ f < r /\ calls[r].arg = JNI_ABORT
              /\ ~faulted'
              /\ audioData' = audioData]_vars

\* C9 (as stated): a successful nativeTranscribe over n segments returns,
\* without faulting, the texts of segments 0..n-1 in order with exactly one
\* space between consecutive ones and nothing before or after (the empty
\* string for n = 0), and every text is fetched, in increasing index order,
\* before whisper_free.
SegString(t) == Utf8ToUtf16(t, 1)

RECURSIVE SegStart(_, _)
SegStart(segs, k) ==
    IF k = 1 THEN 1 ELSE SegStart(segs, k - 1) + Len(SegString(segs[k - 1])) + 1

C9_LegacyJoin ==
    (/\ last.op = "nativeTranscribe"
     /\ \E i \in CallsOf(last.calls, "whisper_full") : last.calls[i].res = 0) =>
        LET segs  == world.segs
            n     == Len(segs)
            text  == last.text
            calls == last.calls
            gets  == CallsOf(calls, "whisper_full_get_segment_text")
        IN  /\ ~faulted
            /\ last.err = ""
            /\ Len(text) = IF n = 0 THEN 0 ELSE SegStart(segs, n + 1) - 2
            /\ \A k \in 1..n : \A i \in 1..Len(SegString(segs[k])) :
                  text[SegStart(segs, k) + i - 1] = SegString(segs[k])[i]
            /\ \A k \in 1..(n - 1) : text[SegStart(segs, k + 1) - 1] = Space
            /\ Cardinality(gets) = n
            /\ \A i, j \in gets : i < j => calls[i].arg < calls[j].arg
            /\ \A i \in gets : calls[i].arg \in 0..(n - 1)
            /\ \A i \in gets, f \in CallsOf(calls, "whisper_free") : i < f

\* C10: in initContextFromAsset an asset that was opened is closed exactly
\* once (and an asset that was not opened is never closed); the close comes
\* after the engine's create-from-buffer call when there is one, and no call
\* uses the asset or its buffer after the close.
C10_AssetClosedOnce ==
    last.op = "initContextFromAsset" =>
        LET calls  == last.calls
            opened == {i \in CallsOf(calls, "AAssetManager_open") : calls[i].res # 0}
            closes == CallsOf(calls, "AAsset_close")
            loads  == CallsOf(calls, "whisper_init_from_buffer_with_params")
        IN  /\ Cardinality(closes) = Cardinality(opened)
            /\ Cardinality(opened) <= 1
            /\ (last.mgr # 0 /\ last.asset # 0) => opened # {}
            /\ \A c \in closes :
                  /\ \A l \in loads : l < c
                  /\ \A j \in 1..Len(calls) : j > c =>
                        calls[j].call \notin {"AAsset_getLength", "AAsset_getBuffer",
                                              "AAsset_close",
                                              "whisper_init_from_buffer_with_params"}

C10_Witness ==
    /\ last.op = "initContextFromAsset"
    /\ last.ret = 0
    /\ CallsOf(last.calls, "whisper_init_from_buffer_with_params") # {}
    /\ CallsOf(last.calls, "AAsset_close") # {}
====
